---------------------------- MODULE Spec2Model ----------------------------
(***************************************************************************)
(* Room bookings and calendar events of the damlee backend                 *)
(* (backend/src/router/bookings.ts, events.ts, rooms router, the Booking   *)
(* and Event mongoose models).                                             *)
(*                                                                         *)
(* Time stamps are integers (the instants the ISO strings denote); ids are *)
(* opaque strings.  A collection is a function from the ids of its stored  *)
(* documents to the documents.  Fields no handler modelled here reads      *)
(* (title, description, attendees, ...) are left out of the documents.     *)
(***************************************************************************)
EXTENDS Integers, FiniteSets, Sequences

VARIABLES
    rooms,      \* Room collection: the set of ids of the stored rooms
    bookings,   \* Booking collection: id -> document
    events,     \* Event collection: id -> document
    resp,       \* the response of the last completed API call: the
                \* procedure, its error and the events it returned
    slots,      \* per request slot: where its bookings.create handler
                \* stands (pc), its caller and its input
    raced,      \* history: an overlap query found nothing while another
                \* handler, asked for the same room and overlapping times,
                \* stood between its own query and its insert
    teams,      \* Team collection: id -> document
    tasks,      \* Task collection: id -> document
    alerts      \* Alert collection: id -> document

slotVars == <<slots, raced>>
restVars == <<teams, tasks, alerts>>
vars == <<rooms, bookings, events, resp, slots, raced, teams, tasks, alerts>>

-----------------------------------------------------------------------------
(* Bounds and universes *)

MaxTime == 3
Times == 0..MaxTime

RoomIds == {"r1", "r2"}
Users == {"u1", "u2"}
BookingIds == {"b1", "b2", "b3"}
\* ids of the documents the collection may already hold when the server starts
StoredIds == {"b1", "b2"}

\* the value of a path the document does not carry, and of a key the input
\* leaves out (NoTime where the key holds a time)
Absent == "absent"
NoTime == 0 - 1

\* Booking.ts: enum of the status path
BookingStatus == {"pending", "confirmed", "cancelled", "rejected"}
\* the statuses the handlers write (bookings.ts:68, bookings.ts:86)
WrittenStatus == {"confirmed", "cancelled"}

\* input of bookings.create after zod parsing (bookings.ts:32-41)
CreateInputs == [roomId : RoomIds, startTime : Times, endTime : Times]

ErrNone == "ok"
ErrRoomNotFound == "Room not found"
ErrBooked == "Room is already booked for this time slot"
ErrValidation == "Booking validation failed: Path room is required"
ErrCancel == "Booking not found or authorized"

Response(op, err, found) == [op |-> op, err |-> err, conflicts |-> found]

-----------------------------------------------------------------------------
(* bookings.create *)

\* a plausible slip: closed comparisons, so that touching intervals match
OverlapFilterClosed(b, roomId, start, end) ==
    /\ b.room = roomId
    /\ b.status # "cancelled"
    /\ b.startTime <= end
    /\ b.endTime >= start

\* a plausible slip: the status condition left out of the query
OverlapFilterAnyStatus(b, roomId, start, end) ==
    /\ b.room = roomId
    /\ b.startTime < end
    /\ b.endTime > start

\* a plausible slip: the room condition left out of the query
OverlapFilterAnyRoom(b, roomId, start, end) ==
    /\ b.status # "cancelled"
    /\ b.startTime < end
    /\ b.endTime > start

\* the filter of the overlap query, applied to one stored document
OverlapFilter(b, roomId, start, end) ==
    /\ b.room = roomId
    /\ b.status # "cancelled"
    /\ b.startTime < end
    /\ b.endTime > start

\* Booking.findOne(filter): the ids of the documents that match; the handler
\* only tests whether one exists
FindOverlap(bks, roomId, start, end) ==
    {id \in DOMAIN bks : OverlapFilter(bks[id], roomId, start, end)}

\* new Booking({...input, organizer, status: "confirmed"}): the schema is
\* strict, so the key roomId, which is no path of the schema, is dropped, and
\* nothing sets the path room
NewBookingDoc(input, user) ==
    [room |-> Absent, organizer |-> user,
     startTime |-> input.startTime, endTime |-> input.endTime,
     status |-> "confirmed"]

\* a plausible slip: the path room not declared required
RequiredPathsNotChecked(doc) ==
    TRUE

\* the required paths of bookingSchema that the document may lack
RequiredPathsPresent(doc) ==
    doc.room # Absent

FreshBookingId(bks) ==
    CHOOSE id \in BookingIds \ DOMAIN bks : TRUE

Insert(bks, id, doc) ==
    [x \in DOMAIN bks \cup {id} |-> IF x = id THEN doc ELSE bks[x]]

\* a plausible slip: the document is written before it is validated
ModelCreateWriteFirst(bks, doc) ==
    [err |-> IF RequiredPathsPresent(doc) THEN ErrNone ELSE ErrValidation,
     bookings |-> Insert(bks, FreshBookingId(bks), doc)]

\* Booking.create(doc): validate, then insert under a fresh _id
ModelCreate(bks, doc) ==
    IF RequiredPathsPresent(doc)
    THEN [err |-> ErrNone, bookings |-> Insert(bks, FreshBookingId(bks), doc)]
    ELSE [err |-> ErrValidation, bookings |-> bks]

\* the handler of bookings.create: the error it ends with and the collection
\* it leaves
CreateHandler(bks, rms, user, input) ==
    IF input.roomId \notin rms
    THEN [err |-> ErrRoomNotFound, bookings |-> bks]
    ELSE IF FindOverlap(bks, input.roomId, input.startTime, input.endTime) # {}
    THEN [err |-> ErrBooked, bookings |-> bks]
    ELSE ModelCreate(bks, NewBookingDoc(input, user))

BookingsCreate(user, input) ==
    /\ DOMAIN bookings # BookingIds
    /\ LET r == CreateHandler(bookings, rooms, user, input)
       IN /\ bookings' = r.bookings
          /\ resp' = Response("bookings.create", r.err, {})
    /\ UNCHANGED <<rooms, events, slotVars, restVars>>

-----------------------------------------------------------------------------
(* bookings.cancel *)

CancelledStatus == "cancelled"

\* a plausible slip: the organizer condition left out of the query
FindOwnedAnyUser(bks, id, user) ==
    id \in DOMAIN bks

\* Booking.findOne({_id: id, organizer: userId})
FindOwned(bks, id, user) ==
    id \in DOMAIN bks /\ bks[id].organizer = user

CancelHandler(bks, user, id) ==
    IF ~FindOwned(bks, id, user)
    THEN [err |-> ErrCancel, bookings |-> bks]
    ELSE [err |-> ErrNone,
          bookings |-> [bks EXCEPT ![id].status = CancelledStatus]]

BookingsCancel(user, id) ==
    /\ LET r == CancelHandler(bookings, user, id)
       IN /\ bookings' = r.bookings
          /\ resp' = Response("bookings.cancel", r.err, {})
    /\ UNCHANGED <<rooms, events, slotVars, restVars>>

-----------------------------------------------------------------------------
(* rooms.create, rooms.delete *)

RoomsCreate ==
    /\ \E id \in RoomIds \ rooms : rooms' = rooms \cup {id}
    /\ resp' = Response("rooms.create", ErrNone, {})
    /\ UNCHANGED <<bookings, events, slotVars, restVars>>

RoomsDelete(id) ==
    /\ IF id \in rooms
       THEN /\ rooms' = rooms \ {id}
            /\ resp' = Response("rooms.delete", ErrNone, {})
       ELSE /\ rooms' = rooms
            /\ resp' = Response("rooms.delete", ErrRoomNotFound, {})
    /\ UNCHANGED <<bookings, events, slotVars, restVars>>

-----------------------------------------------------------------------------
(* The stored bookings *)

\* the stored bookings are u1's; u2 is another authenticated user
Organizers == {"u1"}

BookingDocs ==
    [room : RoomIds, organizer : Organizers, startTime : Times, endTime : Times,
     status : WrittenStatus]

Active(b) == b.status # "cancelled"

NoOverlap(bks) ==
    \A x, y \in DOMAIN bks :
        (x # y /\ bks[x].room = bks[y].room /\ Active(bks[x]) /\ Active(bks[y]))
            => ~(bks[x].startTime < bks[y].endTime
                 /\ bks[y].startTime < bks[x].endTime)

\* The collections the server may find at start: bookings as the data model
\* describes them (start before end, written statuses), no two active ones
\* of a room overlapping
Stores ==
    UNION {[D -> {d \in BookingDocs : d.startTime < d.endTime}] :
              D \in SUBSET StoredIds}

EmptyStore == [x \in {} |-> Absent]
Slots == {"p1", "p2"}
Idle == [pc |-> "idle", user |-> Absent, input |-> Absent, err |-> Absent]

\* what every specification starts with besides its collections
Started ==
    /\ rooms = {}
    /\ resp = Response("start", ErrNone, {})
    /\ slots = [p \in Slots |-> Idle]
    /\ raced = FALSE
    /\ teams = EmptyStore
    /\ tasks = EmptyStore
    /\ alerts = EmptyStore

Init ==
    /\ Started
    /\ bookings \in {s \in Stores : NoOverlap(s)}
    /\ events = EmptyStore

Next ==
    \/ \E u \in Users, i \in CreateInputs : BookingsCreate(u, i)
    \/ \E u \in Users, id \in BookingIds : BookingsCancel(u, id)
    \/ RoomsCreate
    \/ \E id \in RoomIds : RoomsDelete(id)

\* the bookings procedures, each call run to its end before the next starts
Spec == Init /\ [][Next]_vars

-----------------------------------------------------------------------------
(* bookings.create, one await at a time: several handlers in flight *)

\* the server holds one session per slot
SlotUser == [p \in Slots |-> IF p = "p1" THEN "u1" ELSE "u2"]

\* the request arrives and the handler awaits Room.findById
CreateBegin(p, i) ==
    /\ slots[p].pc \in {"idle", "done"}
    /\ slots' = [slots EXCEPT ![p] =
                   IF i.roomId \notin rooms
                   THEN [pc |-> "done", user |-> SlotUser[p], input |-> i,
                         err |-> ErrRoomNotFound]
                   ELSE [pc |-> "query", user |-> SlotUser[p], input |-> i,
                         err |-> Absent]]
    /\ raced' = FALSE
    /\ UNCHANGED <<rooms, bookings, events, resp, restVars>>

\* the requests of two slots ask for one room and overlapping times
Contend(p, q) ==
    /\ slots[p].input.roomId = slots[q].input.roomId
    /\ slots[p].input.startTime < slots[q].input.endTime
    /\ slots[q].input.startTime < slots[p].input.endTime

\* the handler awaits Booking.findOne and throws when it finds a booking
CreateQuery(p) ==
    /\ slots[p].pc = "query"
    /\ LET i == slots[p].input
           found == FindOverlap(bookings, i.roomId, i.startTime, i.endTime)
       IN /\ slots' = [slots EXCEPT ![p] =
                         IF found # {}
                         THEN [@ EXCEPT !.pc = "done", !.err = ErrBooked]
                         ELSE [@ EXCEPT !.pc = "insert"]]
          /\ raced' = (raced \/ (found = {} /\ \E q \in Slots \ {p} :
                                    slots[q].pc = "insert" /\ Contend(p, q)))
    /\ UNCHANGED <<rooms, bookings, events, resp, restVars>>

\* the handler awaits Booking.create and returns
CreateInsert(p) ==
    /\ slots[p].pc = "insert"
    /\ DOMAIN bookings # BookingIds
    /\ LET r == ModelCreate(bookings,
                            NewBookingDoc(slots[p].input, slots[p].user))
       IN /\ bookings' = r.bookings
          /\ slots' = [slots EXCEPT ![p] =
                         [@ EXCEPT !.pc = "done", !.err = r.err]]
    /\ UNCHANGED <<rooms, events, resp, raced, restVars>>

\* a database with no documents
InitFresh ==
    /\ Started
    /\ bookings = EmptyStore
    /\ events = EmptyStore

NextConcurrent ==
    \/ RoomsCreate
    \/ \E p \in Slots, i \in CreateInputs : CreateBegin(p, i)
    \/ \E p \in Slots : CreateQuery(p)
    \/ \E p \in Slots : CreateInsert(p)

SpecConcurrent == InitFresh /\ [][NextConcurrent]_vars

-----------------------------------------------------------------------------
(* events *)

EventIds == {"e1", "e2"}

\* Event model: enum of the status path
EventStatus == {"scheduled", "in-progress", "completed", "cancelled"}
DefaultEventStatus == "scheduled"

ErrEventNotFound == "Event not found"

\* eventSchema of the router after zod parsing: status is optional
EventInputs ==
    [start : Times, end : Times, status : EventStatus \cup {Absent}]
\* eventSchema.partial(): every key is optional
EventPatches ==
    [start : Times \cup {NoTime}, end : Times \cup {NoTime},
     status : EventStatus \cup {Absent}]
CheckInputs ==
    [start : Times, end : Times, excludeId : EventIds \cup {Absent}]

FreshEventId(evs) ==
    CHOOSE id \in EventIds \ DOMAIN evs : TRUE

\* Event.create({...input, start, end, createdBy}): the schema's default fills
\* a status the input leaves out
NewEventDoc(i) ==
    [start |-> i.start, end |-> i.end,
     status |-> IF i.status = Absent THEN DefaultEventStatus ELSE i.status]

\* {$set: updateData}: the keys the patch carries replace the stored ones
ApplyPatch(e, d) ==
    [start |-> IF d.start = NoTime THEN e.start ELSE d.start,
     end |-> IF d.end = NoTime THEN e.end ELSE d.end,
     status |-> IF d.status = Absent THEN e.status ELSE d.status]

EventsUpdate(id, d) ==
    /\ IF id \in DOMAIN events
       THEN /\ events' = [events EXCEPT ![id] = ApplyPatch(@, d)]
            /\ resp' = Response("events.update", ErrNone, {})
       ELSE /\ events' = events
            /\ resp' = Response("events.update", ErrEventNotFound, {})
    /\ UNCHANGED <<rooms, bookings, slotVars, restVars>>

EventsDelete(id) ==
    /\ IF id \in DOMAIN events
       THEN /\ events' = [x \in DOMAIN events \ {id} |-> events[x]]
            /\ resp' = Response("events.delete", ErrNone, {})
       ELSE /\ events' = events
            /\ resp' = Response("events.delete", ErrEventNotFound, {})
    /\ UNCHANGED <<rooms, bookings, slotVars, restVars>>

\* a plausible slip: the clause for a stored event that contains the candidate
\* left out of the $or
ConflictFilterNoContaining(e, start, end) ==
    \/ (e.start < end /\ e.start >= start)
    \/ (e.end > start /\ e.end <= end)

\* the $or of the conflict query, applied to one stored event
ConflictFilter(e, start, end) ==
    \/ (e.start < end /\ e.start >= start)
    \/ (e.end > start /\ e.end <= end)
    \/ (e.start <= start /\ e.end >= end)

\* a plausible slip: the excludeId never reaches the query
ExcludeFilterIgnored(id, excludeId) ==
    TRUE

\* query["_id"] = {$ne: excludeId}, set only when excludeId is given
ExcludeFilter(id, excludeId) ==
    excludeId = Absent \/ id # excludeId

\* Event.find(query): the ids of the events returned
CheckConflicts(evs, c) ==
    {id \in DOMAIN evs : /\ ConflictFilter(evs[id], c.start, c.end)
                         /\ ExcludeFilter(id, c.excludeId)}

\* the orders a cursor may return the documents of S in: find() carries no
\* sort(), and the store guarantees no order for such a query
Orderings(S) ==
    {l \in [1..Cardinality(S) -> S] :
        \A a, b \in 1..Cardinality(S) : a # b => l[a] # l[b]}

\* the response of a call that returns a list of documents
Listed(r, l) ==
    [op |-> r.op, err |-> r.err, conflicts |-> r.conflicts, list |-> l]

\* a plausible slip: the query handed to deleteMany
EventsCheckConflictsDeleting(c) ==
    /\ \E l \in Orderings(CheckConflicts(events, c)) :
          resp' = Listed(Response("events.checkConflicts", ErrNone,
                                  CheckConflicts(events, c)), l)
    /\ events' = [x \in DOMAIN events \ CheckConflicts(events, c) |-> events[x]]
    /\ UNCHANGED <<rooms, bookings, slotVars, restVars>>

EventsCheckConflicts(c) ==
    /\ \E l \in Orderings(CheckConflicts(events, c)) :
          resp' = Listed(Response("events.checkConflicts", ErrNone,
                                  CheckConflicts(events, c)), l)
    /\ UNCHANGED <<rooms, bookings, events, slotVars, restVars>>

ErrEventConflict == "Event conflicts with an existing event"

\* a plausible slip: the event is refused when the conflict query finds one
EventsCreateExclusive(i) ==
    /\ DOMAIN events # EventIds
    /\ IF CheckConflicts(events, [start |-> i.start, end |-> i.end,
                                  excludeId |-> Absent]) # {}
       THEN /\ events' = events
            /\ resp' = Response("events.create", ErrEventConflict, {})
       ELSE /\ events' = Insert(events, FreshEventId(events), NewEventDoc(i))
            /\ resp' = Response("events.create", ErrNone, {})
    /\ UNCHANGED <<rooms, bookings, slotVars, restVars>>

EventsCreate(i) ==
    /\ DOMAIN events # EventIds
    /\ events' = Insert(events, FreshEventId(events), NewEventDoc(i))
    /\ resp' = Response("events.create", ErrNone, {})
    /\ UNCHANGED <<rooms, bookings, slotVars, restVars>>

NextEvents ==
    \/ \E i \in EventInputs : EventsCreate(i)
    \/ \E id \in EventIds, d \in EventPatches : EventsUpdate(id, d)
    \/ \E id \in EventIds : EventsDelete(id)
    \/ \E c \in CheckInputs : EventsCheckConflicts(c)

SpecEvents == InitFresh /\ [][NextEvents]_vars

-----------------------------------------------------------------------------
(* The bearer token of a request and the two middlewares *)

\* the role the User document of each user carries, and so the token issued
\* to the user at login
Role == [u \in Users |-> IF u = "u1" THEN "admin" ELSE "member"]

\* the Authorization header of a request: none, a bearer token that does not
\* verify, or the token issued to a user
NoHeader == "none"
ForgedToken == "Bearer forged"
TokenOf == [u \in Users |-> IF u = "u1" THEN "Bearer token-u1"
                                         ELSE "Bearer token-u2"]
Headers == {NoHeader, ForgedToken} \cup {TokenOf[u] : u \in Users}

\* context.user when no payload was obtained
Null == [userId |-> Absent, role |-> Absent]

\* jwt.verify: the payload the token was signed with, null when it throws
VerifyToken(token) ==
    IF \E u \in Users : TokenOf[u] = token
    THEN LET u == CHOOSE x \in Users : TokenOf[x] = token
         IN [userId |-> u, role |-> Role[u]]
    ELSE Null

GetUserFromRequest(h) ==
    IF h = NoHeader THEN Null ELSE VerifyToken(h)

ErrUnauthorized == "Unauthorized: Please log in to access this resource"
ErrForbidden == "Forbidden: Admin access required"

\* protectedProcedure: the error the middleware throws, ErrNone when it calls
\* next
ProtectedError(h) ==
    IF GetUserFromRequest(h) = Null THEN ErrUnauthorized ELSE ErrNone

\* a plausible slip: the role is never looked at
AdminErrorAnyRole(h) ==
    ProtectedError(h)

\* adminProcedure: protectedProcedure, then the role check
AdminError(h) ==
    IF ProtectedError(h) # ErrNone THEN ProtectedError(h)
    ELSE IF GetUserFromRequest(h).role # "admin" THEN ErrForbidden
    ELSE ErrNone

-----------------------------------------------------------------------------
(* alerts *)

AlertIds == {"a1", "a2"}
ErrAlertNotFound == "Alert not found"

\* the elements of an array
Range(l) == {l[k] : k \in DOMAIN l}

\* a plausible slip: $push in the place of $addToSet
AddToSetPushing(l, x) ==
    Append(l, x)

\* $addToSet: the array gets the value unless it holds it
AddToSet(l, x) ==
    IF x \in Range(l) THEN l ELSE Append(l, x)

\* {$or: [{targetUsers: {$size: 0}}, {targetUsers: userId}]}
Visible(a, u) ==
    a.targetUsers = {} \/ u \in a.targetUsers

\* the filter of unreadCount and markAllRead
UnreadFilter(a, u) ==
    Visible(a, u) /\ u \notin Range(a.readBy)

UnreadCount(als, u) ==
    Cardinality({id \in DOMAIN als : UnreadFilter(als[id], u)})

\* Alert.findByIdAndUpdate(id, {$addToSet: {readBy: userId}}): nothing happens
\* when no alert has the id
MarkRead(als, u, id) ==
    [x \in DOMAIN als |->
        IF x = id THEN [als[x] EXCEPT !.readBy = AddToSet(@, u)] ELSE als[x]]

\* Alert.updateMany(filter, {$addToSet: {readBy: userId}})
MarkAllRead(als, u) ==
    [x \in DOMAIN als |->
        IF UnreadFilter(als[x], u)
        THEN [als[x] EXCEPT !.readBy = AddToSet(@, u)] ELSE als[x]]

FreshAlertId(als) ==
    CHOOSE id \in AlertIds \ DOMAIN als : TRUE

\* the response of a call that returns a count
Counted(r, n) ==
    [op |-> r.op, err |-> r.err, conflicts |-> r.conflicts, count |-> n]

alertFrame == <<rooms, bookings, events, slotVars, teams, tasks>>

\* what a call does that a middleware refuses
Refused(op, err) ==
    /\ resp' = Response(op, err, {})
    /\ alerts' = alerts

AlertsCreate(h, targets) ==
    /\ AdminError(h) # ErrNone \/ DOMAIN alerts # AlertIds
    /\ IF AdminError(h) # ErrNone
       THEN Refused("alerts.create", AdminError(h))
       ELSE /\ alerts' = Insert(alerts, FreshAlertId(alerts),
                                [targetUsers |-> targets, readBy |-> <<>>])
            /\ resp' = Response("alerts.create", ErrNone, {})
    /\ UNCHANGED alertFrame

AlertsSimulateIoT(h) ==
    /\ AdminError(h) # ErrNone \/ DOMAIN alerts # AlertIds
    /\ IF AdminError(h) # ErrNone
       THEN Refused("alerts.simulateIoT", AdminError(h))
       ELSE /\ alerts' = Insert(alerts, FreshAlertId(alerts),
                                [targetUsers |-> {}, readBy |-> <<>>])
            /\ resp' = Response("alerts.simulateIoT", ErrNone, {})
    /\ UNCHANGED alertFrame

AlertsDelete(h, id) ==
    /\ IF AdminError(h) # ErrNone
       THEN Refused("alerts.delete", AdminError(h))
       ELSE IF id \notin DOMAIN alerts
       THEN Refused("alerts.delete", ErrAlertNotFound)
       ELSE /\ alerts' = [x \in DOMAIN alerts \ {id} |-> alerts[x]]
            /\ resp' = Response("alerts.delete", ErrNone, {})
    /\ UNCHANGED alertFrame

AlertsMarkRead(h, id) ==
    /\ IF ProtectedError(h) # ErrNone
       THEN Refused("alerts.markRead", ProtectedError(h))
       ELSE /\ alerts' = MarkRead(alerts, GetUserFromRequest(h).userId, id)
            /\ resp' = Response("alerts.markRead", ErrNone, {})
    /\ UNCHANGED alertFrame

AlertsMarkAllRead(h) ==
    /\ IF ProtectedError(h) # ErrNone
       THEN Refused("alerts.markAllRead", ProtectedError(h))
       ELSE /\ alerts' = MarkAllRead(alerts, GetUserFromRequest(h).userId)
            /\ resp' = Response("alerts.markAllRead", ErrNone, {})
    /\ UNCHANGED alertFrame

AlertsUnreadCount(h) ==
    /\ IF ProtectedError(h) # ErrNone
       THEN Refused("alerts.unreadCount", ProtectedError(h))
       ELSE /\ alerts' = alerts
            /\ resp' = Counted(Response("alerts.unreadCount", ErrNone, {}),
                               UnreadCount(alerts,
                                           GetUserFromRequest(h).userId))
    /\ UNCHANGED alertFrame

NextAlerts ==
    \/ \E h \in Headers, targets \in SUBSET Users : AlertsCreate(h, targets)
    \/ \E h \in Headers : AlertsSimulateIoT(h)
    \/ \E h \in Headers, id \in AlertIds : AlertsDelete(h, id)
    \/ \E h \in Headers, id \in AlertIds : AlertsMarkRead(h, id)
    \/ \E h \in Headers : AlertsMarkAllRead(h)
    \/ \E h \in Headers : AlertsUnreadCount(h)

SpecAlerts == InitFresh /\ [][NextAlerts]_vars

-----------------------------------------------------------------------------
(* teams *)

TeamIds == {"t1", "t2"}
TeamNames == {"n1", "n2"}
\* the longest members array a call is let to extend
MaxMembers == 3

\* the strings a caller may hand in as userId: the ids of the users as
\* toString() prints them (lower-case hex), the same hex digits in upper case,
\* and the id of no user
UserIdInputs == Users \cup {"U1", "U2", "u0"}

\* the ObjectId mongoose casts a string of a query or an update to: hex
\* digits are read whatever their case
CastObjectId(str) ==
    IF str = "U1" THEN "u1" ELSE IF str = "U2" THEN "u2" ELSE str

ErrTeamNotFound == "Team not found"
ErrOwnerUpdate == "Only the team owner can update the team"
ErrOwnerAdd == "Only the team owner can add members"
ErrOwnerRemove == "Only the team owner can remove members"
ErrOwnerDelete == "Only the team owner can delete the team"
ErrUserNotFound == "User not found"
ErrAlreadyMember == "User is already a team member"
ErrRemoveOwner == "Cannot remove the team owner"

FreshTeamId(tms) ==
    CHOOSE id \in TeamIds \ DOMAIN tms : TRUE

\* Team.create({...input, owner: userId, members: [userId]})
NewTeamDoc(u, name) ==
    [name |-> name, owner |-> u, members |-> <<u>>]

\* a plausible slip: every member passes for the owner
IsOwnerOrMember(team, u) ==
    u \in Range(team.members)

\* team.owner.toString() === context.user.userId
IsOwner(team, u) ==
    team.owner = u

\* team.members.some((m) => m.toString() === input.userId): the strings are
\* compared as they are
IsMember(team, userId) ==
    \E k \in DOMAIN team.members : team.members[k] = userId

\* {$push: {members: userId}}
Push(team, userId) ==
    [team EXCEPT !.members = Append(@, CastObjectId(userId))]

\* {$pull: {members: userId}}: every element equal to the value goes
Pull(team, userId) ==
    LET Keep(m) == m # CastObjectId(userId)
    IN [team EXCEPT !.members = SelectSeq(@, Keep)]

TeamsUpdateHandler(tms, u, id, name) ==
    IF id \notin DOMAIN tms
    THEN [err |-> ErrTeamNotFound, teams |-> tms]
    ELSE IF ~IsOwner(tms[id], u)
    THEN [err |-> ErrOwnerUpdate, teams |-> tms]
    ELSE [err |-> ErrNone, teams |-> [tms EXCEPT ![id].name = name]]

TeamsAddMemberHandler(tms, u, teamId, userId) ==
    IF teamId \notin DOMAIN tms
    THEN [err |-> ErrTeamNotFound, teams |-> tms]
    ELSE IF ~IsOwner(tms[teamId], u)
    THEN [err |-> ErrOwnerAdd, teams |-> tms]
    ELSE IF CastObjectId(userId) \notin Users
    THEN [err |-> ErrUserNotFound, teams |-> tms]
    ELSE IF IsMember(tms[teamId], userId)
    THEN [err |-> ErrAlreadyMember, teams |-> tms]
    ELSE [err |-> ErrNone,
          teams |-> [tms EXCEPT ![teamId] = Push(@, userId)]]

TeamsRemoveMemberHandler(tms, u, teamId, userId) ==
    IF teamId \notin DOMAIN tms
    THEN [err |-> ErrTeamNotFound, teams |-> tms]
    ELSE IF ~IsOwner(tms[teamId], u)
    THEN [err |-> ErrOwnerRemove, teams |-> tms]
    ELSE IF tms[teamId].owner = userId
    THEN [err |-> ErrRemoveOwner, teams |-> tms]
    ELSE [err |-> ErrNone,
          teams |-> [tms EXCEPT ![teamId] = Pull(@, userId)]]

TeamsDeleteHandler(tms, u, id) ==
    IF id \notin DOMAIN tms
    THEN [err |-> ErrTeamNotFound, teams |-> tms]
    ELSE IF ~IsOwner(tms[id], u)
    THEN [err |-> ErrOwnerDelete, teams |-> tms]
    ELSE [err |-> ErrNone, teams |-> [x \in DOMAIN tms \ {id} |-> tms[x]]]

teamFrame == <<rooms, bookings, events, slotVars, tasks, alerts>>

TeamsCreate(u, name) ==
    /\ DOMAIN teams # TeamIds
    /\ teams' = Insert(teams, FreshTeamId(teams), NewTeamDoc(u, name))
    /\ resp' = Response("teams.create", ErrNone, {})
    /\ UNCHANGED teamFrame

TeamsUpdate(u, id, name) ==
    /\ LET r == TeamsUpdateHandler(teams, u, id, name)
       IN teams' = r.teams /\ resp' = Response("teams.update", r.err, {})
    /\ UNCHANGED teamFrame

TeamsAddMember(u, teamId, userId) ==
    /\ teamId \in DOMAIN teams => Len(teams[teamId].members) < MaxMembers
    /\ LET r == TeamsAddMemberHandler(teams, u, teamId, userId)
       IN teams' = r.teams /\ resp' = Response("teams.addMember", r.err, {})
    /\ UNCHANGED teamFrame

TeamsRemoveMember(u, teamId, userId) ==
    /\ LET r == TeamsRemoveMemberHandler(teams, u, teamId, userId)
       IN teams' = r.teams
          /\ resp' = Response("teams.removeMember", r.err, {})
    /\ UNCHANGED teamFrame

TeamsDelete(u, id) ==
    /\ LET r == TeamsDeleteHandler(teams, u, id)
       IN teams' = r.teams /\ resp' = Response("teams.delete", r.err, {})
    /\ UNCHANGED teamFrame

NextTeams ==
    \/ \E u \in Users, name \in TeamNames : TeamsCreate(u, name)
    \/ \E u \in Users, id \in TeamIds, name \in TeamNames :
          TeamsUpdate(u, id, name)
    \/ \E u \in Users, id \in TeamIds, userId \in UserIdInputs :
          TeamsAddMember(u, id, userId)
    \/ \E u \in Users, id \in TeamIds, userId \in UserIdInputs :
          TeamsRemoveMember(u, id, userId)
    \/ \E u \in Users, id \in TeamIds : TeamsDelete(u, id)

\* the teams procedures, each call run to its end before the next starts
SpecTeams == InitFresh /\ [][NextTeams]_vars

\* teams.addMember, one await at a time.  The handler awaits Team.findById
\* and works on the document it got from then on: the owner check, the
\* lookup of the user and the membership check
AddMemberFind(p, u, teamId, userId) ==
    /\ slots[p].pc \in {"idle", "done"}
    /\ teamId \in DOMAIN teams => Len(teams[teamId].members) < MaxMembers
    /\ LET r == TeamsAddMemberHandler(teams, u, teamId, userId)
       IN slots' = [slots EXCEPT ![p] =
                      [pc |-> IF r.err = ErrNone THEN "push" ELSE "done",
                       user |-> u,
                       input |-> [teamId |-> teamId, userId |-> userId],
                       err |-> r.err]]
    /\ UNCHANGED <<rooms, bookings, events, resp, raced, restVars>>

\* the handler awaits Team.findByIdAndUpdate(teamId, {$push: ...}) and
\* returns; the update does nothing when the team is gone
AddMemberPush(p) ==
    /\ slots[p].pc = "push"
    /\ LET i == slots[p].input
       IN teams' = [x \in DOMAIN teams |->
                      IF x = i.teamId THEN Push(teams[x], i.userId)
                      ELSE teams[x]]
    /\ slots' = [slots EXCEPT ![p] = [@ EXCEPT !.pc = "done"]]
    /\ resp' = Response("teams.addMember", ErrNone, {})
    /\ UNCHANGED <<rooms, bookings, events, raced, tasks, alerts>>

\* (no team is deleted here: the id of a deleted team is never given again)
NextTeamsConcurrent ==
    \/ \E u \in Users, name \in TeamNames : TeamsCreate(u, name)
    \/ \E p \in Slots, u \in Users, id \in TeamIds, userId \in Users :
          AddMemberFind(p, u, id, userId)
    \/ \E p \in Slots : AddMemberPush(p)

SpecTeamsConcurrent == InitFresh /\ [][NextTeamsConcurrent]_vars

-----------------------------------------------------------------------------
(* tasks and analytics.taskMetrics *)

TaskIds == {"k1", "k2"}
\* Task model: enums of the status and priority paths, and their defaults
TaskStatus == {"todo", "in-progress", "review", "done"}
TaskPriority == {"low", "medium", "high", "urgent"}
DefaultTaskStatus == "todo"
DefaultTaskPriority == "medium"
\* the largest order a caller of updateStatus hands in
MaxOrder == 1

ErrTaskNotFound == "Task not found"

\* the inputs of tasks.create drawn here: status, priority and team are
\* optional keys
TaskInputs ==
    [status : {Absent, "review", "done"}, priority : {Absent, "urgent"},
     team : TeamIds \cup {Absent}]
\* the inputs of tasks.updateStatus drawn here
StatusInputs ==
    [status : {"in-progress", "done"}, order : 0..MaxOrder]

Column(tks, status) ==
    {id \in DOMAIN tks : tks[id].status = status}

\* Task.findOne({status}).sort({order: -1}): the order of the task found,
\* and (maxOrderTask?.order ?? 0) + 1
NextOrder(tks, status) ==
    IF Column(tks, status) = {} THEN 1
    ELSE (CHOOSE n \in {tks[id].order : id \in Column(tks, status)} :
             \A id \in Column(tks, status) : tks[id].order <= n) + 1

\* the document tasks.create stores for an input and the order it computed
NewTaskDoc(i, order) ==
    [status |-> IF i.status = Absent THEN DefaultTaskStatus ELSE i.status,
     priority |-> IF i.priority = Absent THEN DefaultTaskPriority
                  ELSE i.priority,
     team |-> i.team, order |-> order]

FreshTaskId(tks) ==
    CHOOSE id \in TaskIds \ DOMAIN tks : TRUE

\* the response of a call that returns the document it stored
Created(r, id) ==
    [op |-> r.op, err |-> r.err, conflicts |-> r.conflicts, id |-> id]

taskFrame == <<rooms, bookings, events, slotVars, teams, alerts>>

\* the largest order a call of tasks.create is let to give
OrderCap == MaxOrder + Cardinality(TaskIds)

TasksCreate(i) ==
    /\ DOMAIN tasks # TaskIds
    /\ LET status == IF i.status = Absent THEN DefaultTaskStatus ELSE i.status
           id == FreshTaskId(tasks)
       IN /\ NextOrder(tasks, status) <= OrderCap
          /\ tasks' = Insert(tasks, id,
                             NewTaskDoc(i, NextOrder(tasks, status)))
          /\ resp' = Created(Response("tasks.create", ErrNone, {}), id)
    /\ UNCHANGED taskFrame

TasksUpdateStatus(id, i) ==
    /\ IF id \in DOMAIN tasks
       THEN /\ tasks' = [tasks EXCEPT ![id].status = i.status,
                                      ![id].order = i.order]
            /\ resp' = Response("tasks.updateStatus", ErrNone, {})
       ELSE /\ tasks' = tasks
            /\ resp' = Response("tasks.updateStatus", ErrTaskNotFound, {})
    /\ UNCHANGED taskFrame

TasksDelete(id) ==
    /\ IF id \in DOMAIN tasks
       THEN /\ tasks' = [x \in DOMAIN tasks \ {id} |-> tasks[x]]
            /\ resp' = Response("tasks.delete", ErrNone, {})
       ELSE /\ tasks' = tasks
            /\ resp' = Response("tasks.delete", ErrTaskNotFound, {})
    /\ UNCHANGED taskFrame

\* Task.find(query): every task, or the tasks of the team asked for
Considered(tks, teamId) ==
    {id \in DOMAIN tks : teamId = Absent \/ tks[id].team = teamId}

\* Task.countDocuments({priority: "urgent", status: "done"})
UrgentDone(tks) ==
    Cardinality({id \in DOMAIN tks :
                    tks[id].priority = "urgent" /\ tks[id].status = "done"})

\* what the handler of analytics.taskMetrics returns (the rates and the
\* overdue count left out)
TaskMetrics(tks, teamId) ==
    LET found == Considered(tks, teamId)
        statusCounts ==
            [st \in TaskStatus |->
                Cardinality({id \in found : tks[id].status = st})]
        priorityCounts ==
            [pr \in TaskPriority |->
                Cardinality({id \in found : tks[id].priority = pr})]
    IN [total |-> Cardinality(found),
        statusCounts |-> statusCounts,
        priorityCounts |-> priorityCounts,
        reviewBacklog |-> statusCounts["review"],
        urgentPending |-> priorityCounts["urgent"] - UrgentDone(tks)]

\* the response of a call that returns metrics
Measured(r, m) ==
    [op |-> r.op, err |-> r.err, conflicts |-> r.conflicts, metrics |-> m]

AnalyticsTaskMetrics(teamId) ==
    /\ resp' = Measured(Response("analytics.taskMetrics", ErrNone, {}),
                        TaskMetrics(tasks, teamId))
    /\ UNCHANGED <<tasks, taskFrame>>

NextTasks ==
    \/ \E i \in TaskInputs : TasksCreate(i)
    \/ \E id \in TaskIds, i \in StatusInputs : TasksUpdateStatus(id, i)
    \/ \E id \in TaskIds : TasksDelete(id)
    \/ \E teamId \in TeamIds \cup {Absent} : AnalyticsTaskMetrics(teamId)

\* the tasks procedures, each call run to its end before the next starts
SpecTasks == InitFresh /\ [][NextTasks]_vars

\* tasks.create, one await at a time: the handler awaits Task.findOne and
\* computes the order
TasksCreateFind(p, i) ==
    /\ slots[p].pc \in {"idle", "done"}
    /\ Cardinality(DOMAIN tasks)
          + Cardinality({q \in Slots : slots[q].pc = "save"})
          < Cardinality(TaskIds)
    /\ LET status == IF i.status = Absent THEN DefaultTaskStatus ELSE i.status
       IN slots' = [slots EXCEPT ![p] =
                      [pc |-> "save", user |-> SlotUser[p],
                       input |-> NewTaskDoc(i, NextOrder(tasks, status)),
                       err |-> Absent]]
    /\ UNCHANGED <<rooms, bookings, events, resp, raced, restVars>>

\* the handler awaits the save of the document and returns
TasksCreateSave(p) ==
    /\ slots[p].pc = "save"
    /\ LET id == FreshTaskId(tasks)
       IN /\ tasks' = Insert(tasks, id, slots[p].input)
          /\ resp' = Created(Response("tasks.create", ErrNone, {}), id)
    /\ slots' = [slots EXCEPT ![p] = [@ EXCEPT !.pc = "done", !.err = ErrNone]]
    /\ UNCHANGED <<rooms, bookings, events, raced, teams, alerts>>

NextTasksConcurrent ==
    \/ \E p \in Slots, i \in TaskInputs : TasksCreateFind(p, i)
    \/ \E p \in Slots : TasksCreateSave(p)
    \/ \E id \in TaskIds, i \in StatusInputs : TasksUpdateStatus(id, i)

SpecTasksConcurrent == InitFresh /\ [][NextTasksConcurrent]_vars

-----------------------------------------------------------------------------
(* Claims *)

\* the half-open overlap test of the specification, on a stored booking and a
\* candidate interval
HalfOpenOverlap(b, start, end) ==
    b.startTime < end /\ start < b.endTime

\* C1: after any sequence of bookings.create and bookings.cancel calls run
\* one at a time, no two stored bookings of one room whose status is not
\* cancelled have overlapping intervals.
C1_NoActiveOverlap ==
    \A x, y \in DOMAIN bookings :
        (x # y /\ bookings[x].room = bookings[y].room
               /\ bookings[x].status # "cancelled"
               /\ bookings[y].status # "cancelled")
            => ~(bookings[x].startTime < bookings[y].endTime
                 /\ bookings[y].startTime < bookings[x].endTime)

\* a create call has just run on a room that holds two active bookings
C1_Witness ==
    /\ resp.op = "bookings.create"
    /\ \E x, y \in DOMAIN bookings :
          /\ x # y
          /\ bookings[x].room = bookings[y].room
          /\ bookings[x].room \in rooms
          /\ bookings[x].status # "cancelled"
          /\ bookings[y].status # "cancelled"
          /\ bookings[x].endTime = bookings[y].startTime
          /\ bookings[x].startTime < bookings[x].endTime
          /\ bookings[y].startTime < bookings[y].endTime

\* C2: for an existing room, bookings.create rejects with "Room is already
\* booked for this time slot" exactly when some stored booking of the room
\* that is not cancelled overlaps the candidate by the half-open test.
C2_RejectsIffOverlap ==
    \A u \in Users, i \in CreateInputs :
        i.roomId \in rooms
            => ((CreateHandler(bookings, rooms, u, i).err = ErrBooked)
                <=> \E id \in DOMAIN bookings :
                       /\ bookings[id].room = i.roomId
                       /\ bookings[id].status # "cancelled"
                       /\ HalfOpenOverlap(bookings[id], i.startTime,
                                          i.endTime))

\* the state a create call leaves that was rejected for a booking the
\* candidate reaches into
C2_Witness ==
    /\ resp = Response("bookings.create", ErrBooked, {})
    /\ \E id \in DOMAIN bookings, u \in Users, i \in CreateInputs :
          /\ i.roomId = bookings[id].room
          /\ i.roomId \in rooms
          /\ bookings[id].status # "cancelled"
          /\ bookings[id].startTime < i.startTime
          /\ i.startTime < bookings[id].endTime
          /\ bookings[id].endTime < i.endTime
          /\ CreateHandler(bookings, rooms, u, i).err = resp.err

\* the documents of one room
OfRoom(bks, roomId) ==
    [x \in {y \in DOMAIN bks : bks[y].room = roomId} |-> bks[x]]

\* C3: intervals that only touch at a boundary never conflict: no stored
\* event r with r.end = c.start or c.end = r.start is returned by
\* events.checkConflicts for the candidate c, whatever create and update have
\* stored.  (The bookings half is BookingsTouchingNeverMatch.)
C3_TouchingNeverConflicts ==
    \A s \in Times, e \in Times, id \in DOMAIN events :
        (events[id].end = s \/ e = events[id].start)
            => id \notin CheckConflicts(events, [start |-> s, end |-> e,
                                                excludeId |-> Absent])

\* the bookings half of C3: the overlap query of bookings.create never
\* matches a stored booking that only touches the candidate
BookingsTouchingNeverMatch ==
    \A i \in CreateInputs, id \in DOMAIN bookings :
        (bookings[id].endTime = i.startTime
           \/ i.endTime = bookings[id].startTime)
            => id \notin FindOverlap(bookings, i.roomId, i.startTime,
                                     i.endTime)

\* C4: two bookings.create calls for one room and overlapping times that
\* both run their overlap query before either inserts both find nothing and
\* both insert, so that two overlapping active bookings of the room are stored.
C4_RaceStoresOverlap ==
    (raced /\ \A p \in Slots : slots[p].pc = "done")
        => \E x, y \in DOMAIN bookings :
              /\ x # y
              /\ bookings[x].status # "cancelled"
              /\ bookings[y].status # "cancelled"
              /\ bookings[x].room = bookings[y].room
              /\ bookings[x].startTime < bookings[y].endTime
              /\ bookings[y].startTime < bookings[x].endTime

\* C5: an interval with end <= start is rejected: events.create with such
\* an interval fails and stores nothing, and events.checkConflicts does not
\* evaluate such a candidate.
C5_InvalidIntervalRejected ==
    [][/\ \A i \in EventInputs :
             (i.end <= i.start /\ EventsCreate(i))
                 => (resp'.err # ErrNone /\ events' = events)
       /\ \A c \in CheckInputs :
             (c.end <= c.start /\ EventsCheckConflicts(c))
                 => resp'.err # ErrNone]_vars

\* C6: a cancelled booking never blocks a new booking: in every state, for
\* every candidate, bookings.create ends as it would if no cancelled booking
\* were stored, and so never rejects because of one.
C6_CancelledNeverBlocks ==
    \A u \in Users, i \in CreateInputs :
        LET kept == {x \in DOMAIN bookings : bookings[x].status # "cancelled"}
        IN CreateHandler(bookings, rooms, u, i).err
               = CreateHandler([x \in kept |-> bookings[x]], rooms, u, i).err

\* the state a create call leaves that asked for the very interval of a
\* booking that bookings.cancel has cancelled, and passed the overlap check
C6_Witness ==
    /\ resp = Response("bookings.create", ErrValidation, {})
    /\ \E id \in DOMAIN bookings, u \in Users :
          /\ bookings[id].status = "cancelled"
          /\ bookings[id].room \in rooms
          /\ bookings[id].startTime < bookings[id].endTime
          /\ CreateHandler(bookings, rooms, u,
                           [roomId |-> bookings[id].room,
                            startTime |-> bookings[id].startTime,
                            endTime |-> bookings[id].endTime]).err = resp.err

\* C7: events.checkConflicts never returns an event whose status is
\* cancelled (stated of the events whose interval is well formed, start
\* before end, so that no run against it rests on a malformed interval).
C7_NoCancelledConflict ==
    resp.op = "events.checkConflicts"
        => \A id \in resp.conflicts :
              events[id].start < events[id].end
                  => events[id].status # "cancelled"

\* C8: for every stored event R and every candidate interval,
\* events.checkConflicts with excludeId = R.id returns exactly what it returns
\* without excludeId, minus R.
C8_SelfExclusion ==
    \A s \in Times, e \in Times, R \in DOMAIN events :
        CheckConflicts(events, [start |-> s, end |-> e, excludeId |-> R])
            = CheckConflicts(events, [start |-> s, end |-> e,
                                      excludeId |-> Absent]) \ {R}

\* the state a checkConflicts call leaves that asked for the interval of a
\* stored event R with excludeId = R.id, while another event conflicts too
C8_Witness ==
    /\ resp.op = "events.checkConflicts"
    /\ resp.conflicts # {}
    /\ \E R \in DOMAIN events :
          /\ events[R].start < events[R].end
          /\ R \notin resp.conflicts
          /\ R \in CheckConflicts(events,
                                  [start |-> events[R].start,
                                   end |-> events[R].end,
                                   excludeId |-> Absent])
          /\ resp.conflicts
                 = CheckConflicts(events,
                                  [start |-> events[R].start,
                                   end |-> events[R].end,
                                   excludeId |-> R])

\* C9: the outcome of bookings.create for a room depends only on the bookings
\* stored for that room: it is the outcome on the collection cut down to
\* the room's bookings, whatever the other rooms hold.
C9_RoomIsolation ==
    \A u \in Users, i \in CreateInputs :
        CreateHandler(bookings, rooms, u, i).err
            = CreateHandler(OfRoom(bookings, i.roomId), rooms, u, i).err

\* the state a create call leaves that passed the overlap check although an
\* active booking of another existing room overlaps the candidate
C9_Witness ==
    /\ resp = Response("bookings.create", ErrValidation, {})
    /\ \E id \in DOMAIN bookings, u \in Users, i \in CreateInputs :
          /\ bookings[id].status # "cancelled"
          /\ bookings[id].room \in rooms
          /\ i.roomId \in rooms
          /\ i.roomId # bookings[id].room
          /\ i.startTime < i.endTime
          /\ HalfOpenOverlap(bookings[id], i.startTime, i.endTime)
          /\ CreateHandler(bookings, rooms, u, i).err = resp.err

\* C10: whenever bookings.create fails, no booking is inserted and every
\* stored booking is left as it was.
C10_FailedCreateChangesNothing ==
    [][(resp'.op = "bookings.create" /\ resp'.err # ErrNone)
          => bookings' = bookings]_vars

\* the states the two failures the claim names leave
C10_Witness ==
    /\ resp.op = "bookings.create"
    /\ resp.err \in {ErrRoomNotFound, ErrBooked}
    /\ DOMAIN bookings = StoredIds

\* C11: calendar events are not exclusive: events.create never fails, and
\* whenever two stored events that are not cancelled overlap (half-open),
\* events.checkConflicts on the interval of either returns the other.
C11_EventsNotExclusive ==
    /\ resp.op = "events.create" => resp.err = ErrNone
    /\ \A x, y \in DOMAIN events :
          (/\ x # y
           /\ events[x].status # "cancelled"
           /\ events[y].status # "cancelled"
           /\ events[x].start < events[y].end
           /\ events[y].start < events[x].end)
              => x \in CheckConflicts(events, [start |-> events[y].start,
                                               end |-> events[y].end,
                                               excludeId |-> Absent])

\* two overlapping events that are not cancelled are stored, and the last
\* call asked events.checkConflicts for the interval of one and got both
C11_Witness ==
    /\ resp.op = "events.checkConflicts"
    /\ \E x, y \in DOMAIN events :
          /\ x # y
          /\ events[x].status # "cancelled"
          /\ events[y].status # "cancelled"
          /\ events[x].start < events[x].end
          /\ events[y].start < events[y].end
          /\ events[x].start < events[y].start
          /\ events[y].start < events[x].end
          /\ events[x].end < events[y].end
          /\ resp.conflicts = {x, y}
          /\ resp.conflicts = CheckConflicts(events,
                                             [start |-> events[y].start,
                                              end |-> events[y].end,
                                              excludeId |-> Absent])

\* an event whose interval is well formed
WellFormed(e) == e.start < e.end

\* C12: cancelled is terminal: no step of the API takes a stored event (of a
\* well-formed interval) whose status is cancelled to another status.  (The
\* bookings half is BookingsCancelledStays.)
C12_CancelledIsTerminal ==
    [][\A id \in DOMAIN events \cap DOMAIN events' :
          (WellFormed(events[id]) /\ events[id].status = "cancelled")
              => events'[id].status = "cancelled"]_vars

\* the bookings half of C12: no step takes a cancelled booking to another
\* status
BookingsCancelledStays ==
    [][\A id \in DOMAIN bookings \cap DOMAIN bookings' :
          bookings[id].status = "cancelled"
              => bookings'[id].status = "cancelled"]_vars

\* C13: no step changes the interval of a stored event in place: start and
\* end of an event that stays stored are after the step what they were
\* before (stated of the steps that find and leave a well-formed interval).
\* (The bookings half is BookingsIntervalFixed.)
C13_IntervalNeverChanged ==
    [][\A id \in DOMAIN events \cap DOMAIN events' :
          (WellFormed(events[id]) /\ WellFormed(events'[id]))
              => /\ events'[id].start = events[id].start
                 /\ events'[id].end = events[id].end]_vars

\* the bookings half of C13: no step changes anything but the status of a
\* stored booking
BookingsIntervalFixed ==
    [][\A id \in DOMAIN bookings \cap DOMAIN bookings' :
          bookings'[id] = [bookings[id] EXCEPT !.status = bookings'[id].status]
      ]_vars

\* C14: the conflict test of events.checkConflicts is commutative over
\* everything that can be stored or submitted: for a stored event a and any
\* interval b, the query for candidate b selects a exactly when the query for
\* candidate a would select b.  (The bookings half is BookingsOverlapCommutes.)
C14_OverlapCommutes ==
    \A id \in DOMAIN events, s \in Times, e \in Times :
        ConflictFilter(events[id], s, e)
            <=> ConflictFilter([start |-> s, end |-> e],
                               events[id].start, events[id].end)

\* the bookings half of C14: the overlap query of bookings.create gives one
\* answer for a stored booking and a candidate whichever of them is stored
BookingsOverlapCommutes ==
    \A id \in DOMAIN bookings, s \in Times, e \in Times :
        LET a == bookings[id]
            b == [a EXCEPT !.startTime = s, !.endTime = e]
        IN OverlapFilter(a, a.room, s, e)
               <=> OverlapFilter(b, a.room, a.startTime, a.endTime)

\* the order of the ids, for ties
EventIdRank == [id \in EventIds |-> IF id = "e1" THEN 1 ELSE 2]

\* C15: the list events.checkConflicts returns is ordered ascending by start,
\* ties broken by id (stated of the lists of events of well-formed
\* intervals).
C15_ConflictsSorted ==
    (/\ resp.op = "events.checkConflicts"
     /\ \A id \in resp.conflicts : WellFormed(events[id]))
        => \A a, b \in DOMAIN resp.list :
              a < b
                  => \/ events[resp.list[a]].start < events[resp.list[b]].start
                     \/ /\ events[resp.list[a]].start
                              = events[resp.list[b]].start
                        /\ EventIdRank[resp.list[a]] < EventIdRank[resp.list[b]]

\* C16: events.checkConflicts is read-only: a step that ends a
\* checkConflicts call leaves the stored events, and every field of them, as
\* they were.
C16_CheckConflictsReadOnly ==
    [][resp'.op = "events.checkConflicts" => events' = events]_vars

\* the state a checkConflicts call leaves that found conflicts among two
\* stored events
C16_Witness ==
    /\ resp.op = "events.checkConflicts"
    /\ resp.conflicts # {}
    /\ DOMAIN events = EventIds
    /\ \E id \in resp.conflicts : WellFormed(events[id])

\* C17: a found conflict is a successful result, never an error: neither
\* events.checkConflicts nor bookings.create ends with an error because a
\* conflicting reservation exists.
C17_ConflictIsNotAnError ==
    resp.op \in {"bookings.create", "events.checkConflicts"}
        => resp.err # ErrBooked

\* C18: for a stored event and a candidate that both have start < end, the
\* three-clause query of events.checkConflicts selects the event exactly when
\* the time conditions of the bookings.create query select a booking of the
\* same interval.
C18_QueriesAgree ==
    \A id \in DOMAIN events, s \in Times, e \in Times :
        (WellFormed(events[id]) /\ s < e)
            => (ConflictFilter(events[id], s, e)
                <=> OverlapFilter([room |-> "r1", organizer |-> "u1",
                                   startTime |-> events[id].start,
                                   endTime |-> events[id].end,
                                   status |-> "confirmed"], "r1", s, e))

\* the state a checkConflicts call leaves that asked for an interval strictly
\* inside a stored event and got that event
C18_Witness ==
    /\ resp.op = "events.checkConflicts"
    /\ \E id \in resp.conflicts, s \in Times, e \in Times :
          /\ events[id].start < s
          /\ s < e
          /\ e < events[id].end
          /\ resp.conflicts = CheckConflicts(events, [start |-> s, end |-> e,
                                                      excludeId |-> Absent])

\* C19: when the room exists and no booking of it that is not cancelled
\* overlaps the requested interval, bookings.create succeeds and stores
\* exactly one new booking, of the requested room and interval, organized by
\* the caller and confirmed, and leaves the others as they were.
C19_CreateStoresBooking ==
    \A u \in Users, i \in CreateInputs :
        (/\ DOMAIN bookings # BookingIds
         /\ i.roomId \in rooms
         /\ FindOverlap(bookings, i.roomId, i.startTime, i.endTime) = {})
            => LET r == CreateHandler(bookings, rooms, u, i)
               IN /\ r.err = ErrNone
                  /\ \E id \in DOMAIN r.bookings \ DOMAIN bookings :
                        r.bookings
                            = Insert(bookings, id,
                                     [room |-> i.roomId, organizer |-> u,
                                      startTime |-> i.startTime,
                                      endTime |-> i.endTime,
                                      status |-> "confirmed"])

\* C20: bookings.cancel by a user who is not the organizer, or with an unknown
\* id, fails with "Booking not found or authorized" and changes nothing;
\* by the organizer it sets the status of that booking to cancelled and
\* changes nothing else.
C20_OnlyOrganizerCancels ==
    \A u \in Users, id \in BookingIds :
        LET r == CancelHandler(bookings, u, id)
        IN IF id \in DOMAIN bookings /\ bookings[id].organizer = u
           THEN /\ r.err = ErrNone
                /\ r.bookings = [bookings EXCEPT ![id].status = "cancelled"]
           ELSE /\ r.err = ErrCancel
                /\ r.bookings = bookings

\* the state a cancel call leaves that was refused although the booking is
\* stored and active: the caller was not its organizer
C20_Witness ==
    /\ resp = Response("bookings.cancel", ErrCancel, {})
    /\ \E id \in DOMAIN bookings, u \in Users :
          /\ bookings[id].status # "cancelled"
          /\ bookings[id].organizer # u
          /\ CancelHandler(bookings, u, id).err = resp.err

\* a call of a procedure of the alerts router with the header h
AlertsCall(h) ==
    \/ \E targets \in SUBSET Users : AlertsCreate(h, targets)
    \/ AlertsSimulateIoT(h)
    \/ \E id \in AlertIds : AlertsDelete(h, id)
    \/ \E id \in AlertIds : AlertsMarkRead(h, id)
    \/ AlertsMarkAllRead(h)
    \/ AlertsUnreadCount(h)

\* a call of a procedure built on adminProcedure with the header h
AdminCall(h) ==
    \/ \E targets \in SUBSET Users : AlertsCreate(h, targets)
    \/ AlertsSimulateIoT(h)
    \/ \E id \in AlertIds : AlertsDelete(h, id)

\* C21: a call whose request carries no valid bearer token fails with
\* Unauthorized and changes no stored data, and a call of an adminProcedure
\* by an authenticated user whose role is not admin fails with Forbidden and
\* changes no stored data.
C21_MiddlewareRefuses ==
    [][\A h \in Headers :
          /\ (h \in {NoHeader, ForgedToken} /\ AlertsCall(h))
                => (resp'.err = ErrUnauthorized /\ alerts' = alerts)
          /\ (/\ \E u \in Users : h = TokenOf[u] /\ Role[u] # "admin"
              /\ AdminCall(h))
                => (resp'.err = ErrForbidden /\ alerts' = alerts)]_vars

\* the state a call of alerts.delete leaves that a member made for a stored
\* alert
C21_Witness ==
    /\ resp = Response("alerts.delete", ErrForbidden, {})
    /\ DOMAIN alerts = AlertIds

\* C22: the owner of every stored team is an element of the team's members.
C22_OwnerIsMember ==
    \A t \in DOMAIN teams : teams[t].owner \in Range(teams[t].members)

\* C23: the members of a team never hold one user twice, also when several
\* addMember calls for one team and user are in flight together.
C23_NoDuplicateMembers ==
    \A t \in DOMAIN teams :
        \A a, b \in DOMAIN teams[t].members :
            a # b => teams[t].members[a] # teams[t].members[b]

\* C24: teams.update, addMember, removeMember and delete called by a user
\* who is not the owner of the team end with an error and leave every team,
\* its fields, its members and its existence, as it was.
C24_OnlyOwnerMutates ==
    \A t \in DOMAIN teams, u \in Users :
        u # teams[t].owner
            => /\ \A name \in TeamNames :
                     LET r == TeamsUpdateHandler(teams, u, t, name)
                     IN r.err # ErrNone /\ r.teams = teams
               /\ \A userId \in UserIdInputs :
                     LET a == TeamsAddMemberHandler(teams, u, t, userId)
                         r == TeamsRemoveMemberHandler(teams, u, t, userId)
                     IN /\ a.err # ErrNone /\ a.teams = teams
                        /\ r.err # ErrNone /\ r.teams = teams
               /\ LET r == TeamsDeleteHandler(teams, u, t)
                  IN r.err # ErrNone /\ r.teams = teams

\* the state a removeMember call leaves that a member who is not the owner
\* made against the owner
C24_Witness ==
    /\ resp = Response("teams.removeMember", ErrOwnerRemove, {})
    /\ \E t \in DOMAIN teams, u \in Users :
          /\ u # teams[t].owner
          /\ u \in Range(teams[t].members)
          /\ TeamsRemoveMemberHandler(teams, u, t, teams[t].owner).err
                 = resp.err

\* C25: the task a tasks.create call has just stored has an order strictly
\* greater than the order of every other stored task of its status, also
\* when several tasks.create calls are in flight together.
C25_NewTaskIsLast ==
    (resp.op = "tasks.create" /\ resp.err = ErrNone)
        => /\ resp.id \in DOMAIN tasks
           /\ \A other \in DOMAIN tasks \ {resp.id} :
                 tasks[other].status = tasks[resp.id].status
                     => tasks[resp.id].order > tasks[other].order

\* the sum of the four status counts
SumOfStatusCounts(m) ==
    m.statusCounts["todo"] + m.statusCounts["in-progress"]
        + m.statusCounts["review"] + m.statusCounts["done"]

\* C26: for every teamId (or none), analytics.taskMetrics reports
\* urgentPending as the number of considered tasks that are urgent and not
\* done; what it returns is never negative, and its four status counts sum
\* to total.
C26_UrgentPending ==
    /\ \A teamId \in TeamIds \cup {Absent} :
          LET m == TaskMetrics(tasks, teamId)
          IN /\ m.urgentPending
                    = Cardinality({id \in Considered(tasks, teamId) :
                                      /\ tasks[id].priority = "urgent"
                                      /\ tasks[id].status # "done"})
             /\ SumOfStatusCounts(m) = m.total
    /\ resp.op = "analytics.taskMetrics" => resp.metrics.urgentPending >= 0

\* C27: alerts.markRead twice leaves what markRead once leaves, with the user
\* once in readBy; markRead never changes whether another user has read an
\* alert; after markAllRead by u the unread count of u is 0 and the unread
\* count of every other user is what it was.
C27_ReadStatePerUser ==
    \A u \in Users :
        /\ \A id \in AlertIds :
              LET once == MarkRead(alerts, u, id)
              IN /\ MarkRead(once, u, id) = once
                 /\ id \in DOMAIN alerts
                       => Cardinality({k \in DOMAIN once[id].readBy :
                                         once[id].readBy[k] = u}) = 1
                 /\ \A v \in Users \ {u}, a \in DOMAIN alerts :
                       (v \in Range(once[a].readBy))
                           <=> (v \in Range(alerts[a].readBy))
        /\ UnreadCount(MarkAllRead(alerts, u), u) = 0
        /\ \A v \in Users \ {u} :
              UnreadCount(MarkAllRead(alerts, u), v) = UnreadCount(alerts, v)

\* the state a second markRead call of one user for one alert leaves, the
\* alert being read by both users and another alert unread
C27_Witness ==
    /\ resp.op = "alerts.markRead"
    /\ \E a, b \in DOMAIN alerts, u \in Users :
          /\ a # b
          /\ Len(alerts[a].readBy) = 2
          /\ MarkRead(alerts, u, a) = alerts
          /\ alerts[b].readBy = <<>>
          /\ UnreadCount(alerts, u) = 1

=============================================================================
